---- MODULE Spec2Model ----
(***************************************************************************)
(* Candidate deduplication and ranking pipeline of the candidate           *)
(* recommendation engine (engine/recommender.py, engine/parser.py,         *)
(* engine/similarity.py, engine/summarizer.py).                            *)
(*                                                                         *)
(* Python strings are sequences of one-character strings, so that          *)
(* str.lower(), str.strip(), the regular expressions of clean_text and the *)
(* f-string that builds the name+email key are computed, not assumed.      *)
(* Python list indices are 0-based; the model uses 1-based positions.      *)
(***************************************************************************)
EXTENDS Integers, Sequences, FiniteSets, TLC

(***************************************************************************)
(* Bounds of the model.                                                    *)
(***************************************************************************)
\* longest candidate list handed directly to detect_duplicates
MaxCands == 3

\* most manual resume boxes handed to process_candidates
MaxManual == 4

\* the scores the provider yields repeat with this period along the rows
PatternLen == 2

\* directly classified scores lie this close, in units of 0.00001, to a
\* threshold
ScoreMargin == 10

\* longest text handed directly to generate_content_hash
MaxTextLen == 5

\* most candidate vectors handed directly to calculate_similarity
MaxVectors == 2

(***************************************************************************)
(* Characters and the string methods the code uses.                        *)
(***************************************************************************)
UpperSeq == <<"A","B","C","D","E","F","G","H","I","J","K","L","M",
              "N","O","P","Q","R","S","T","U","V","W","X","Y","Z">>

LowerSeq == <<"a","b","c","d","e","f","g","h","i","j","k","l","m",
              "n","o","p","q","r","s","t","u","v","w","x","y","z">>

Digits == {"0","1","2","3","4","5","6","7","8","9"}

UpperLetters == {UpperSeq[i] : i \in 1..26}

LowerLetters == {LowerSeq[i] : i \in 1..26}

Letters == UpperLetters \cup LowerLetters

\* \s of the re module, restricted to the characters the model uses
IsSpace(c) == c \in {" ", "\n", "\t"}

\* \w of the re module
IsWordChar(c) == c \in Letters \cup Digits \cup {"_"}

LowerChar(c) ==
    IF c \in UpperLetters
    THEN LowerSeq[CHOOSE i \in 1..26 : UpperSeq[i] = c]
    ELSE c

\* str.lower()
Lower(s) == [i \in 1..Len(s) |-> LowerChar(s[i])]

SetMin(S) == CHOOSE x \in S : \A y \in S : x <= y

SetMax(S) == CHOOSE x \in S : \A y \in S : y <= x

\* str.strip()
Strip(s) ==
    LET solid == {i \in 1..Len(s) : ~IsSpace(s[i])}
    IN  IF solid = {} THEN <<>> ELSE SubSeq(s, SetMin(solid), SetMax(solid))

\* the elements of s at the positions in I, in order
RECURSIVE PickAt(_, _, _)
PickAt(s, I, i) ==
    IF i > Len(s) THEN <<>>
    ELSE IF i \in I THEN <<s[i]>> \o PickAt(s, I, i + 1)
    ELSE PickAt(s, I, i + 1)

\* re.sub(r'\s+', ' ', text)
CollapseWhitespace(s) ==
    LET keep == {i \in 1..Len(s) : ~IsSpace(s[i]) \/ i = 1 \/ ~IsSpace(s[i - 1])}
        kept == PickAt(s, keep, 1)
    IN  [i \in 1..Len(kept) |-> IF IsSpace(kept[i]) THEN " " ELSE kept[i]]

Punctuation ==
    {".", ",", "!", "?", "-", "+", "=", "&", "|", ":", ";", "(", ")", "[", "]", "{", "}"}

WhitelistedChar(c) == IsWordChar(c) \/ IsSpace(c) \/ c \in Punctuation

\* re.sub(r'[^\w\s\.\,\!\?\-\+\=\&\|\:\;\(\)\[\]\{\}]', '', text)
RemoveSpecialChars(s) == SelectSeq(s, WhitelistedChar)

\* parser.clean_text
clean_text(text) ==
    IF text = <<>> THEN <<>>
    ELSE Strip(RemoveSpecialChars(CollapseWhitespace(text)))

\* hashlib.sha256(...).hexdigest(): a digest that differs for different
\* byte strings (collision freedom of SHA-256)
Sha256(s) == <<"sha256", s>>

\* recommender.generate_content_hash
generate_content_hash(text) ==
    IF text = <<>> THEN Sha256(<<>>)
    ELSE Sha256(Strip(Lower(clean_text(text))))

(***************************************************************************)
(* parser.extract_candidate_info: the name and the email read from a       *)
(* resume text (the phone number is a pass-through field, left out).       *)
(***************************************************************************)
\* fallback values of parser.extract_candidate_info
UnknownCandidate ==
    <<"U","n","k","n","o","w","n"," ","C","a","n","d","i","d","a","t","e">>

NoEmailFound == <<"N","o"," ","e","m","a","i","l"," ","f","o","u","n","d">>

\* s.startswith(prefix)
StartsWith(s, prefix) ==
    Len(s) >= Len(prefix) /\ SubSeq(s, 1, Len(prefix)) = prefix

\* sub in s
Contains(s, sub) ==
    \E i \in 1..(Len(s) - Len(sub) + 1) : SubSeq(s, i, i + Len(sub) - 1) = sub

\* text.split('\n')
RECURSIVE SplitLines(_, _, _)
SplitLines(s, i, cur) ==
    IF i > Len(s) THEN <<cur>>
    ELSE IF s[i] = "\n" THEN <<cur>> \o SplitLines(s, i + 1, <<>>)
    ELSE SplitLines(s, i + 1, Append(cur, s[i]))

\* [line.strip() for line in text.split('\n') if line.strip()]
NonEmptyLines(text) ==
    LET raw == SplitLines(text, 1, <<>>)
        stripped == [i \in 1..Len(raw) |-> Strip(raw[i])]
    IN  SelectSeq(stripped, LAMBDA l : l # <<>>)

\* len(line.split())
WordCount(line) ==
    Cardinality({i \in 1..Len(line) :
                    ~IsSpace(line[i]) /\ (i = 1 \/ IsSpace(line[i - 1]))})

\* line.isupper()
IsUpper(line) ==
    /\ \E i \in 1..Len(line) : line[i] \in UpperLetters
    /\ \A i \in 1..Len(line) : line[i] \notin LowerLetters

SkipWords ==
    {<<"p","h","o","n","e">>, <<"e","m","a","i","l">>,
     <<"a","d","d","r","e","s","s">>,
     <<"e","x","p","e","r","i","e","n","c","e">>,
     <<"e","d","u","c","a","t","i","o","n">>, <<"s","k","i","l","l","s">>}

NamePrefixesSkipped == {<<"h","t","t","p">>, <<"w","w","w">>, <<"@">>}

MaxNameLineLen == 100

MaxNameWords == 4

\* re.match(r'^[A-Za-z\s\-\.\']+$', line)
MatchesNamePattern(line) ==
    /\ line # <<>>
    /\ \A i \in 1..Len(line) :
          line[i] \in Letters \cup {"-", ".", "'"} \/ IsSpace(line[i])

\* lines 86-101 for one line: "name" (take it and stop) or "skip"
NameLineVerdict(line) ==
    IF (\E pre \in NamePrefixesSkipped : StartsWith(line, pre))
       \/ Len(line) >= MaxNameLineLen
    THEN "skip"
    ELSE IF \E w \in SkipWords : Contains(Lower(line), w) THEN "skip"
    ELSE IF ~(MatchesNamePattern(line) /\ WordCount(line) <= MaxNameWords) THEN "skip"
    ELSE IF IsUpper(line)
         THEN (IF WordCount(line) >= 2 THEN "name" ELSE "skip")
         ELSE "name"

\* lines 84-101
ExtractName(text) ==
    LET lines == NonEmptyLines(Strip(text))
        named == {i \in 1..Len(lines) : NameLineVerdict(lines[i]) = "name"}
    IN  IF named = {} THEN UnknownCandidate ELSE lines[SetMin(named)]

\* \b before position i of s (i in 1..Len(s)+1)
WordBoundary(s, i) ==
    LET before == i > 1 /\ IsWordChar(s[i - 1])
        after == i <= Len(s) /\ IsWordChar(s[i])
    IN  before # after

EmailLocalChar(c) == c \in Letters \cup Digits \cup {".", "_", "%", "+", "-"}

EmailDomainChar(c) == c \in Letters \cup Digits \cup {".", "-"}

\* the matches of r'\b[A-Za-z0-9._%+-]+@[A-Za-z0-9.-]+\.[A-Za-z]{2,}\b'
\* that start at i: <<position of the last dot, end>>
EmailMatchesAt(s, i) ==
    {bc \in (1..Len(s)) \X (1..Len(s)) :
        \E a \in (i + 1)..Len(s) :
            /\ WordBoundary(s, i)
            /\ \A k \in i..(a - 1) : EmailLocalChar(s[k])
            /\ s[a] = "@"
            /\ bc[1] > a + 1
            /\ \A k \in (a + 1)..(bc[1] - 1) : EmailDomainChar(s[k])
            /\ s[bc[1]] = "."
            /\ bc[2] >= bc[1] + 2
            /\ \A k \in (bc[1] + 1)..bc[2] : s[k] \in Letters
            /\ WordBoundary(s, bc[2] + 1)}

\* lines 104-106: re.search takes the leftmost start; the greedy
\* quantifiers take the last possible dot, then the longest ending
ExtractEmail(text) ==
    LET s == Strip(text)
        starts == {i \in 1..Len(s) : EmailMatchesAt(s, i) # {}}
    IN  IF starts = {} THEN NoEmailFound
        ELSE LET i == SetMin(starts)
                 b == SetMax({bc[1] : bc \in EmailMatchesAt(s, i)})
                 c == SetMax({bc[2] : bc \in {m \in EmailMatchesAt(s, i) : m[1] = b}})
             IN  SubSeq(s, i, c)

\* parser.extract_candidate_info
extract_candidate_info(text) ==
    IF text = <<>>
    THEN [name |-> UnknownCandidate, email |-> NoEmailFound]
    ELSE [name |-> ExtractName(text), email |-> ExtractEmail(text)]

(***************************************************************************)
(* Candidates.  A candidate is a Python dict; keys is the set of keys it   *)
(* has, and a field whose key is absent is never read by the model.  The   *)
(* pass-through fields phone and source take no part in any decision and   *)
(* are left out.                                                           *)
(***************************************************************************)
RequiredKeys == {"email", "name", "text"}

AllKeys == {"id", "name", "email", "text"}

Cand(isdict, keys, id, name, email, text) ==
    [isdict |-> isdict, keys |-> keys, id |-> id, name |-> name,
     email |-> email, text |-> text]

\* the emails detect_duplicates never groups on: ["no email found", ""]
SentinelEmails == {Lower(NoEmailFound), <<>>}

(***************************************************************************)
(* Inputs of a direct call of detect_duplicates: every list of at most     *)
(* MaxCands entries drawn from Profiles.  The caller assigns pairwise       *)
(* distinct ids; the entry at position i gets the id <<"Id", i>>.          *)
(***************************************************************************)
NameAl == <<"A","l">>

NameBo == <<"B","o">>

EmailAB == <<"a","@","b">>

TextX == <<"x">>

TextY == <<"y">>

WellFormedProfiles ==
    {Cand(TRUE, AllKeys, <<>>, n, e, t) :
        n \in {NameAl, NameBo}, e \in {EmailAB, NoEmailFound}, t \in {TextX, TextY}}

\* the first well-formed profile up to letter case, surrounding whitespace
\* and a character clean_text removes; and a blank email
VariantProfiles ==
    {Cand(TRUE, AllKeys, <<>>, <<"a","l"," ">>, <<" ","A","@","B">>, <<" ","X","#">>),
     Cand(TRUE, AllKeys, <<>>, NameAl, <<" ">>, TextY)}

\* entries that are no dict or lack a key
MalformedProfiles ==
    {Cand(FALSE, {}, <<>>, <<>>, <<>>, <<>>),
     Cand(TRUE, AllKeys \ {"text"}, <<>>, NameAl, EmailAB, <<>>),
     Cand(TRUE, AllKeys \ {"id"}, <<>>, NameAl, EmailAB, TextX)}

Profiles == WellFormedProfiles \cup VariantProfiles \cup MalformedProfiles

WithId(c, id) == [c EXCEPT !.id = IF "id" \in c.keys THEN id ELSE <<>>]

\* the list in which the entry at position i has profile f[i]
DetectInput(f) == [i \in 1..Len(f) |-> WithId(f[i], <<"Id", i>>)]

(***************************************************************************)
(* State.                                                                  *)
(***************************************************************************)
VARIABLES
    entry,                \* the function the caller calls
    pc,                   \* the statement the call is at
    uploaded_files,       \* process_candidates: arguments
    manual_texts,
    candidates,           \* detect_duplicates: the argument
    valid_candidates,     \* detect_duplicates: entries that passed validation
    email_groups,         \* the three defaultdict(list), as sequences of
    content_hash_groups,  \*   [key, indices] in insertion order
    name_email_groups,
    duplicates,           \* set of positions in valid_candidates
    duplicate_info,       \* list of duplicate records
    dd_ret,               \* what detect_duplicates returned
    unique_candidates,    \* process_candidates: locals assigned at line 218
    p_duplicate_info,
    similarity_scores,    \* process_candidates: line 235, in units of 0.00001
    df,                   \* process_candidates: results, then the DataFrame
    encode_calls,         \* the calls of model.encode so far: texts, raised
    similarity_calls,     \* number of calls of cosine_similarity so far
    summary_calls,        \* the calls of generate_summary so far
    sort_raised,          \* process_candidates: the try of line 257 raised
    ret,                  \* what process_candidates returned
    fn_arg,               \* a direct call of one of the pure functions: the
    fn_ret,               \*   argument and what the call returned or raised
    session_results       \* app.py: st.session_state.results

ddVars == <<candidates, valid_candidates, email_groups, content_hash_groups,
            name_email_groups, duplicates, duplicate_info, dd_ret>>

pcVars == <<uploaded_files, manual_texts, unique_candidates, p_duplicate_info,
            similarity_scores, df, encode_calls, similarity_calls, summary_calls, ret, sort_raised>>

fnVars == <<fn_arg, fn_ret>>

appVars == <<session_results>>

vars == <<entry, pc, ddVars, pcVars, fnVars, appVars>>

(***************************************************************************)
(* detect_duplicates                                                       *)
(***************************************************************************)
\* lines 76-83: the entries that are kept as valid
IsValidCandidate(c) == c.isdict /\ RequiredKeys \subseteq c.keys

\* line 95 without .lower()
NormalizedEmail_KeepsCase(c) == IF c.email = <<>> THEN <<>> ELSE Strip(c.email)

\* line 95
NormalizedEmail(c) == IF c.email = <<>> THEN <<>> ELSE Strip(Lower(c.email))

\* line 97: f"{name}_{email}"
NormalizedName(c) == IF c.name = <<>> THEN <<>> ELSE Strip(Lower(c.name))

NameEmailKey(c) == NormalizedName(c) \o <<"_">> \o NormalizedEmail(c)

\* lines 94-101 for one keying: a defaultdict(list) filled in list order
RECURSIVE GroupBy(_, _, _)
GroupBy(keyOf, n, groups) ==
    IF n = Len(keyOf) THEN groups
    ELSE LET i == n + 1
             hit == {g \in 1..Len(groups) : groups[g].key = keyOf[i]}
         IN  IF hit = {}
             THEN GroupBy(keyOf, i,
                          Append(groups, [key |-> keyOf[i], indices |-> <<i>>]))
             ELSE LET g == CHOOSE h \in hit : TRUE
                  IN  GroupBy(keyOf, i,
                              [groups EXCEPT ![g].indices = Append(@, i)])

\* the (idx, indices[0]) pairs one of the three loops visits to mark, in
\* the order it visits them
RECURSIVE Marks(_, _, _, _, _)
Marks(groups, g, marked, checksMarked, skipsSentinels) ==
    IF g > Len(groups) THEN <<>>
    ELSE LET indices == groups[g].indices
             taken == Len(indices) > 1
                      /\ (skipsSentinels => groups[g].key \notin SentinelEmails)
             here == IF taken
                     THEN SelectSeq([k \in 1..(Len(indices) - 1) |->
                                        [idx |-> indices[k + 1], first |-> indices[1]]],
                                    LAMBDA m : checksMarked => m.idx \notin marked)
                     ELSE <<>>
         IN  here \o Marks(groups, g + 1, marked, checksMarked, skipsSentinels)

ReasonPrefix(type) ==
    CASE type = "email_duplicate" -> "Duplicate email with candidate "
      [] type = "content_duplicate" -> "Duplicate content with candidate "
      [] type = "name_email_duplicate" -> "Duplicate name+email with candidate "

\* a record whose reason cites the candidate just before the removed one
DuplicateRecord_CitesPredecessor(type, m, valid) ==
    [type |-> type,
     candidate_id |-> valid[m.idx].id,
     name |-> valid[m.idx].name,
     email |-> valid[m.idx].email,
     reason |-> [prefix |-> ReasonPrefix(type), cites |-> valid[m.idx - 1].id]]

\* lines 114-120, 130-136, 146-152
DuplicateRecord(type, m, valid) ==
    [type |-> type,
     candidate_id |-> valid[m.idx].id,
     name |-> valid[m.idx].name,
     email |-> valid[m.idx].email,
     reason |-> [prefix |-> ReasonPrefix(type), cites |-> valid[m.first].id]]

\* building a record reads ["id"] of both candidates: KeyError without it
RaisesKeyError(marks, valid) ==
    \E k \in 1..Len(marks) :
        "id" \notin valid[marks[k].idx].keys \/ "id" \notin valid[marks[k].first].keys

NoReturn == [status |-> "none"]

\* lines 71-86: the early return on an empty argument, validation, and the
\* early return when nothing valid remains
DD_Validate ==
    /\ pc = "dd_validate"
    /\ LET valid == SelectSeq(candidates, IsValidCandidate)
       IN  /\ valid_candidates' = valid
           /\ IF candidates = <<>> \/ valid = <<>>
              THEN /\ pc' = "dd_returned"
                   /\ dd_ret' = [status |-> "returned", unique |-> <<>>,
                                 duplicates |-> <<>>]
              ELSE /\ pc' = "dd_group"
                   /\ UNCHANGED dd_ret
    /\ UNCHANGED <<appVars, fnVars, entry, candidates, email_groups, content_hash_groups,
                   name_email_groups, duplicates, duplicate_info, pcVars>>

\* lines 89-101
DD_Group ==
    /\ pc = "dd_group"
    /\ LET n == Len(valid_candidates)
       IN  /\ email_groups' =
                 GroupBy([i \in 1..n |-> NormalizedEmail(valid_candidates[i])], 0, <<>>)
           /\ content_hash_groups' =
                 GroupBy([i \in 1..n |-> generate_content_hash(valid_candidates[i].text)],
                         0, <<>>)
           /\ name_email_groups' =
                 GroupBy([i \in 1..n |-> NameEmailKey(valid_candidates[i])], 0, <<>>)
    /\ pc' = "dd_email"
    /\ UNCHANGED <<appVars, fnVars, entry, candidates, valid_candidates, duplicates, duplicate_info,
                   dd_ret, pcVars>>

\* one of the three marking loops: the records it appends, or KeyError
MarkingPass(type, marks, next) ==
    IF RaisesKeyError(marks, valid_candidates)
    THEN /\ pc' = "dd_raised"
         /\ dd_ret' = [status |-> "raised"]
         /\ UNCHANGED <<duplicates, duplicate_info>>
    ELSE /\ pc' = next
         /\ duplicates' = duplicates \cup {marks[k].idx : k \in 1..Len(marks)}
         /\ duplicate_info' =
               duplicate_info \o
               [k \in 1..Len(marks) |-> DuplicateRecord(type, marks[k], valid_candidates)]
         /\ UNCHANGED dd_ret

\* the email loop without `email not in ["no email found", ""]`
EmailMarks_KeepsSentinels == Marks(email_groups, 1, duplicates, FALSE, FALSE)

\* the email loop marking the first member of a group for each later one
EmailMarks_MarksFirst ==
    LET marks == Marks(email_groups, 1, duplicates, FALSE, TRUE)
    IN  [k \in 1..Len(marks) |-> [idx |-> marks[k].first, first |-> marks[k].idx]]

\* lines 108-120: no test of `duplicates`, sentinel emails skipped
EmailMarks == Marks(email_groups, 1, duplicates, FALSE, TRUE)

\* the content loop without `if idx not in duplicates`
ContentMarks_Unchecked == Marks(content_hash_groups, 1, duplicates, FALSE, FALSE)

\* the content loop marking only in groups whose first member is unmarked
ContentMarks_IfFirstKept ==
    SelectSeq(Marks(content_hash_groups, 1, duplicates, TRUE, FALSE),
              LAMBDA m : m.first \notin duplicates)

\* lines 123-136
ContentMarks == Marks(content_hash_groups, 1, duplicates, TRUE, FALSE)

\* the name+email loop skipping the sentinel emails as the email loop does
NameEmailMarks_SkipsSentinels ==
    SelectSeq(Marks(name_email_groups, 1, duplicates, TRUE, FALSE),
              LAMBDA m : ~(NormalizedEmail(valid_candidates[m.idx]) \in SentinelEmails))

\* lines 139-152
NameEmailMarks == Marks(name_email_groups, 1, duplicates, TRUE, FALSE)

DD_EmailPass ==
    /\ pc = "dd_email"
    /\ MarkingPass("email_duplicate", EmailMarks, "dd_content")
    /\ UNCHANGED <<appVars, fnVars, entry, candidates, valid_candidates, email_groups,
                   content_hash_groups, name_email_groups, pcVars>>

DD_ContentPass ==
    /\ pc = "dd_content"
    /\ MarkingPass("content_duplicate", ContentMarks, "dd_name_email")
    /\ UNCHANGED <<appVars, fnVars, entry, candidates, valid_candidates, email_groups,
                   content_hash_groups, name_email_groups, pcVars>>

DD_NameEmailPass ==
    /\ pc = "dd_name_email"
    /\ MarkingPass("name_email_duplicate", NameEmailMarks, "dd_filter")
    /\ UNCHANGED <<appVars, fnVars, entry, candidates, valid_candidates, email_groups,
                   content_hash_groups, name_email_groups, pcVars>>

\* the survivors collected from the back of the list
RECURSIVE Survivors_Reversed(_, _)
Survivors_Reversed(valid, marked) ==
    IF valid = <<>> THEN <<>>
    ELSE LET n == Len(valid)
             rest == Survivors_Reversed(SubSeq(valid, 1, n - 1), marked)
         IN  IF n \in marked THEN rest ELSE <<valid[n]>> \o rest

\* line 155
Survivors(valid, marked) == PickAt(valid, (1..Len(valid)) \ marked, 1)

\* lines 155-160
DD_Filter ==
    /\ pc = "dd_filter"
    /\ dd_ret' = [status |-> "returned",
                  unique |-> Survivors(valid_candidates, duplicates),
                  duplicates |-> duplicate_info]
    /\ pc' = "dd_returned"
    /\ UNCHANGED <<appVars, fnVars, entry, candidates, valid_candidates, email_groups,
                   content_hash_groups, name_email_groups, duplicates,
                   duplicate_info, pcVars>>

(***************************************************************************)
(* Inputs of process_candidates.                                           *)
(***************************************************************************)
JobDescription == <<"j","o","b">>

\* an uploaded file: its lower-cased extension and the text that
\* extract_text_from_pdf / extract_text_from_docx return for it ("" when
\* the extraction fails); present is FALSE for a None entry
File(present, ext, content) == [present |-> present, ext |-> ext, content |-> content]

\* a resume with a name line and an email
ResubmittedResume == <<"A","l","\n","a","@","b",".","i","o">>

\* another name on the same email, in another letter case
SharedEmailResume == <<"B","o","\n","A","@","B",".","I","O">>

FileInputs ==
    {<<>>,
     <<File(TRUE, "pdf", ResubmittedResume)>>,
     <<File(FALSE, "", <<>>), File(TRUE, "docx", SharedEmailResume),
       File(TRUE, "txt", <<"Z","e","d">>), File(TRUE, "pdf", <<>>),
       File(TRUE, "pdf", <<" ">>)>>}

\* the i-th resume nobody else submits: a name line of its own, no email
FreshResume(i) == <<"N", LowerSeq[i]>>

\* what the i-th manual box may hold: a resume of its own; in the first
\* two boxes the resubmitted one; in the first box nothing but a blank
ManualChoices(i) ==
    {FreshResume(i)}
    \cup (IF i <= 2 THEN {ResubmittedResume} ELSE {})
    \cup (IF i = 1 THEN {<<" ">>} ELSE {})

\* the contents of n manual boxes
ManualInputs(n) ==
    {f \in [1..n -> UNION {ManualChoices(i) : i \in 1..n}] :
        \A i \in 1..n : f[i] \in ManualChoices(i)}

\* similarity scores, in units of 0.00001: one that round(score, 4) lifts
\* onto a threshold and two on a threshold; no two are shown alike
Scores == {39999, 60000, 80000}

\* row i of a run gets the score p[((i - 1) % PatternLen) + 1] of a pattern p
ScorePatterns == [1..PatternLen -> Scores]

(***************************************************************************)
(* process_candidates                                                      *)
(***************************************************************************)
\* lines 191-198 and 204-211
NewCandidate(id, text) ==
    LET info == extract_candidate_info(text)
    IN  Cand(TRUE, AllKeys, id, info.name, info.email, clean_text(text))

\* lines 178-198
RECURSIVE FileCandidates(_, _)
FileCandidates(files, i) ==
    IF i > Len(files) THEN <<>>
    ELSE LET file == files[i]
             rest == FileCandidates(files, i + 1)
         IN  IF file.present /\ file.ext \in {"pdf", "docx"} /\ file.content # <<>>
             THEN <<NewCandidate(<<"File", i>>, file.content)>> \o rest
             ELSE rest

\* lines 201-211
RECURSIVE ManualCandidates(_, _)
ManualCandidates(texts, i) ==
    IF i > Len(texts) THEN <<>>
    ELSE LET rest == ManualCandidates(texts, i + 1)
         IN  IF Strip(texts[i]) # <<>>
             THEN <<NewCandidate(<<"Text", i>>, texts[i])>> \o rest
             ELSE rest

\* pd.DataFrame()
EmptyFrame == <<>>

\* lines 175-215, and the call at line 218
PC_Build ==
    /\ pc = "pc_build"
    /\ LET built == FileCandidates(uploaded_files, 1) \o ManualCandidates(manual_texts, 1)
       IN  /\ candidates' = built
           /\ IF built = <<>>
              THEN /\ pc' = "pc_returned"
                   /\ ret' = [status |-> "returned", df |-> EmptyFrame,
                              duplicates |-> <<>>]
              ELSE /\ pc' = "dd_validate"
                   /\ UNCHANGED ret
    /\ UNCHANGED <<appVars, fnVars, entry, uploaded_files, manual_texts, valid_candidates, email_groups,
                   content_hash_groups, name_email_groups, duplicates, duplicate_info,
                   dd_ret, unique_candidates, p_duplicate_info, similarity_scores, df,
                   encode_calls, similarity_calls, summary_calls,
                   sort_raised>>

\* lines 218-227
PC_AfterDetect ==
    /\ entry = "process_candidates"
    /\ pc = "dd_returned"
    /\ unique_candidates' = dd_ret.unique
    /\ p_duplicate_info' = dd_ret.duplicates
    /\ IF dd_ret.unique = <<>>
       THEN /\ pc' = "pc_returned"
            /\ ret' = [status |-> "returned", df |-> EmptyFrame,
                       duplicates |-> dd_ret.duplicates]
       ELSE /\ pc' = "pc_embed"
            /\ UNCHANGED ret
    /\ UNCHANGED <<appVars, fnVars, entry, ddVars, uploaded_files, manual_texts, similarity_scores, df,
                   encode_calls, similarity_calls, summary_calls,
                   sort_raised>>

\* the texts in the reverse of the unique order
ResumeTexts_Reversed(unique) ==
    [i \in 1..Len(unique) |-> unique[Len(unique) + 1 - i].text]

\* line 231
ResumeTexts(unique) == [i \in 1..Len(unique) |-> unique[i].text]

\* a generate_embeddings that calls the provider once more when it raised
generate_embeddings_Retries(texts, provider_raises) ==
    [calls |-> IF provider_raises
               THEN <<[texts |-> texts, raised |-> TRUE],
                      [texts |-> texts, raised |-> FALSE]>>
               ELSE <<[texts |-> texts, raised |-> FALSE]>>,
     raised |-> FALSE]

\* similarity.generate_embeddings: one call of model.encode, whose
\* exception is logged and raised again
generate_embeddings(texts, provider_raises) ==
    [calls |-> <<[texts |-> texts, raised |-> provider_raises]>>,
     raised |-> provider_raises]

\* lines 230-232: the provider raises in the first call, in the second, or
\* in neither
PC_Embed ==
    /\ pc = "pc_embed"
    /\ \E job_raises \in BOOLEAN : \E resumes_raise \in BOOLEAN :
          LET job == generate_embeddings(<<JobDescription>>, job_raises)
              resumes == generate_embeddings(ResumeTexts(unique_candidates), resumes_raise)
          IN  IF job.raised
              THEN /\ encode_calls' = encode_calls \o job.calls
                   /\ pc' = "pc_raised"
                   /\ ret' = [status |-> "raised"]
              ELSE /\ encode_calls' = encode_calls \o job.calls \o resumes.calls
                   /\ IF resumes.raised
                      THEN /\ pc' = "pc_raised"
                           /\ ret' = [status |-> "raised"]
                      ELSE /\ pc' = "pc_score"
                           /\ UNCHANGED ret
    /\ UNCHANGED <<appVars, fnVars, entry, ddVars, uploaded_files, manual_texts, unique_candidates,
                   p_duplicate_info, similarity_scores, df, similarity_calls,
                   summary_calls, sort_raised>>

ExcellentThreshold == 80000

GoodThreshold == 60000

FairThreshold == 40000

\* the thresholds compared with > instead of >=
classify_status_Strict(score) ==
    IF score > ExcellentThreshold
    THEN [status |-> "Excellent Match", class |-> "status-excellent"]
    ELSE IF score > GoodThreshold
    THEN [status |-> "Good Match", class |-> "status-good"]
    ELSE IF score > FairThreshold
    THEN [status |-> "Fair Match", class |-> "status-fair"]
    ELSE [status |-> "Poor Match", class |-> "status-poor"]

\* recommender.classify_status
classify_status(score) ==
    IF score >= ExcellentThreshold
    THEN [status |-> "Excellent Match", class |-> "status-excellent"]
    ELSE IF score >= GoodThreshold
    THEN [status |-> "Good Match", class |-> "status-good"]
    ELSE IF score >= FairThreshold
    THEN [status |-> "Fair Match", class |-> "status-fair"]
    ELSE [status |-> "Poor Match", class |-> "status-poor"]

\* round(score, 4), still in units of 0.00001 (no score of the model lies
\* halfway between two multiples of 0.0001)
Round4(score) == ((score + 5) \div 10) * 10

\* lines 242-254
ResultRow(i, candidate, score) ==
    LET tier == classify_status(score)
    IN  [Rank |-> i, CandidateID |-> candidate.id, Name |-> candidate.name,
         Email |-> candidate.email, SimilarityScore |-> Round4(score),
         Status |-> tier.status, StatusClass |-> tier.class, AISummary |-> <<>>,
         text |-> candidate.text]

\* lines 235-254 with similarity.calculate_similarity: cosine_similarity
\* raises, or yields one score per unique candidate
PC_Score ==
    /\ pc = "pc_score"
    /\ similarity_calls' = similarity_calls + 1
    /\ \/ /\ pc' = "pc_raised"
          /\ ret' = [status |-> "raised"]
          /\ UNCHANGED <<similarity_scores, df>>
       \/ \E p \in ScorePatterns :
             LET n == Len(unique_candidates)
                 scores == [i \in 1..n |-> p[((i - 1) % PatternLen) + 1]]
             IN  /\ similarity_scores' = scores
                 /\ df' = [i \in 1..n |-> ResultRow(i, unique_candidates[i], scores[i])]
                 /\ pc' = "pc_sort"
                 /\ UNCHANGED ret
    /\ UNCHANGED <<appVars, fnVars, entry, ddVars, uploaded_files, manual_texts, unique_candidates,
                   p_duplicate_info, encode_calls, summary_calls,
                   sort_raised>>

\* a sort that keeps one row per score
ArgSorts_DropsTies(rows) ==
    LET firsts == {i \in 1..Len(rows) :
                      \A j \in 1..(i - 1) : rows[j].SimilarityScore # rows[i].SimilarityScore}
    IN  {p \in [1..Cardinality(firsts) -> firsts] :
            \A k \in 1..(Cardinality(firsts) - 1) :
                rows[p[k]].SimilarityScore > rows[p[k + 1]].SimilarityScore}

\* the sort without ascending=False
ArgSorts_Ascending(rows) ==
    {p \in Permutations(1..Len(rows)) :
        \A k \in 1..(Len(rows) - 1) :
            rows[p[k]].SimilarityScore <= rows[p[k + 1]].SimilarityScore}

\* the orders in which sort_values("Similarity Score", ascending=False)
\* may leave the rows: descending by score.  The call runs with its default
\* kind ('quicksort'), which does not promise an order for rows of equal
\* score, so every order of the tied rows is an outcome
ArgSorts(rows) ==
    {p \in Permutations(1..Len(rows)) :
        \A k \in 1..(Len(rows) - 1) :
            rows[p[k]].SimilarityScore >= rows[p[k + 1]].SimilarityScore}

\* lines 258-259: the rows in the order p, reset_index(drop=True) and
\* Rank = index + 1
SortedFrame(rows, p) == [k \in 1..Len(p) |-> [rows[p[k]] EXCEPT !.Rank = k]]

\* an except branch that numbers the rows from the last one to the first
UnsortedFrame_Reversed(rows) ==
    [k \in 1..Len(rows) |-> [rows[Len(rows) + 1 - k] EXCEPT !.Rank = k]]

\* lines 263-264: the frame of the results as built, Rank = 1..n
UnsortedFrame(rows) == [k \in 1..Len(rows) |-> [rows[k] EXCEPT !.Rank = k]]

\* lines 257-264: the sort succeeds, or raises and the except branch runs
PC_Sort ==
    /\ pc = "pc_sort"
    /\ \/ /\ \E p \in ArgSorts(df) : df' = SortedFrame(df, p)
          /\ sort_raised' = FALSE
       \/ /\ df' = UnsortedFrame(df)
          /\ sort_raised' = TRUE
    /\ pc' = "pc_summarize"
    /\ UNCHANGED <<appVars, fnVars, entry, ddVars, uploaded_files, manual_texts, unique_candidates,
                   p_duplicate_info, similarity_scores, encode_calls, similarity_calls,
                   summary_calls, ret>>

\* f"{similarity_score:.3f}", in units of 0.001
Format3(score) == (score + 50) \div 100

\* summarizer.fallback_summary
fallback_summary(similarity_score) ==
    [kind |-> "fallback",
     template |-> IF similarity_score > ExcellentThreshold THEN "excellent alignment"
                  ELSE IF similarity_score > GoodThreshold THEN "good alignment"
                  ELSE IF similarity_score > FairThreshold THEN "moderate match"
                  ELSE "limited overlap",
     shown |-> Format3(similarity_score)]

\* what a call of generate_summary meets: no OPENAI_API_KEY, a backend
\* call that raises, a response whose handling raises (no choices, no
\* content), or a backend that answers
SummarizerBackends == {"no_key", "raises", "bad_response", "answers"}

\* line 23: os.getenv("OPENAI_API_KEY") is set
KeyConfigured(backend) == backend # "no_key"

\* lines 23-25: without a key the function returns before line 42
BackendCalled(backend) == KeyConfigured(backend)

\* an exception between line 42 and line 52
BackendFailed(backend) == backend \in {"raises", "bad_response"}

\* a generate_summary without its except branch
generate_summary_Propagates(job_description, resume_text, similarity_score, backend) ==
    IF backend = "no_key" THEN fallback_summary(similarity_score)
    ELSE IF backend = "answers" THEN [kind |-> "backend", template |-> "", shown |-> 0]
    ELSE [kind |-> "raised", template |-> "", shown |-> 0]

\* summarizer.generate_summary
generate_summary(job_description, resume_text, similarity_score, backend) ==
    IF backend = "no_key" THEN fallback_summary(similarity_score)
    ELSE IF backend = "answers" THEN [kind |-> "backend", template |-> "", shown |-> 0]
    ELSE fallback_summary(similarity_score)

\* line 267: min(5, len(df))
TopCandidates == 5

\* a summary for every row
top_candidates_count_All(frame) == Len(frame)

top_candidates_count(frame) ==
    IF Len(frame) < TopCandidates THEN Len(frame) ELSE TopCandidates

\* lines 267-273; an exception of generate_summary would leave
\* process_candidates, which has no try around the call
PC_Summarize ==
    /\ pc = "pc_summarize"
    /\ \E backend \in SummarizerBackends :
          LET k == top_candidates_count(df)
              summary(i) == generate_summary(JobDescription, df[i].text,
                                             df[i].SimilarityScore, backend)
              calls == [i \in 1..k |-> [job_description |-> JobDescription,
                                        resume_text |-> df[i].text,
                                        similarity_score |-> df[i].SimilarityScore,
                                        key_configured |-> KeyConfigured(backend),
                                        backend_called |-> BackendCalled(backend),
                                        backend_failed |-> BackendFailed(backend),
                                        result |-> summary(i)]]
              raising == {i \in 1..k : summary(i).kind = "raised"}
          IN  IF raising = {}
              THEN /\ df' = [i \in 1..Len(df) |->
                               IF i <= k THEN [df[i] EXCEPT !.AISummary = summary(i)]
                               ELSE df[i]]
                   /\ summary_calls' = summary_calls \o calls
                   /\ pc' = "pc_return"
                   /\ UNCHANGED ret
              ELSE /\ summary_calls' =
                         summary_calls \o SubSeq(calls, 1, CHOOSE i \in raising :
                                                              \A j \in raising : i <= j)
                   /\ pc' = "pc_raised"
                   /\ ret' = [status |-> "raised"]
                   /\ UNCHANGED df
    /\ UNCHANGED <<appVars, fnVars, entry, ddVars, uploaded_files, manual_texts, unique_candidates,
                   p_duplicate_info, similarity_scores, encode_calls, similarity_calls,
                   sort_raised>>

\* line 276: df.drop(columns=["text"])
DropText(row) ==
    [Rank |-> row.Rank, CandidateID |-> row.CandidateID, Name |-> row.Name,
     Email |-> row.Email, SimilarityScore |-> row.SimilarityScore,
     Status |-> row.Status, StatusClass |-> row.StatusClass,
     AISummary |-> row.AISummary]

\* lines 276-278
PC_Return ==
    /\ pc = "pc_return"
    /\ ret' = [status |-> "returned",
               df |-> [i \in 1..Len(df) |-> DropText(df[i])],
               duplicates |-> p_duplicate_info]
    /\ pc' = "pc_returned"
    /\ UNCHANGED <<appVars, fnVars, entry, ddVars, uploaded_files, manual_texts, unique_candidates,
                   p_duplicate_info, similarity_scores, df, encode_calls,
                   similarity_calls, summary_calls,
                   sort_raised>>

(***************************************************************************)
(* Specification.                                                          *)
(***************************************************************************)
\* a session in which no results were stored yet
NoResults == [stored |-> FALSE]

InitLocals ==
    /\ valid_candidates = <<>>
    /\ email_groups = <<>>
    /\ content_hash_groups = <<>>
    /\ name_email_groups = <<>>
    /\ duplicates = {}
    /\ duplicate_info = <<>>
    /\ dd_ret = NoReturn
    /\ unique_candidates = <<>>
    /\ p_duplicate_info = <<>>
    /\ similarity_scores = <<>>
    /\ df = <<>>
    /\ encode_calls = <<>>
    /\ similarity_calls = 0
    /\ summary_calls = <<>>
    /\ sort_raised = FALSE
    /\ fn_ret = NoReturn
    /\ ret = NoReturn
    /\ session_results = NoResults

\* a caller calls detect_duplicates on a list of its own
InitDetect ==
    /\ entry = "detect_duplicates"
    /\ pc = "dd_validate"
    /\ \E n \in 0..MaxCands : \E f \in [1..n -> Profiles] : candidates = DetectInput(f)
    /\ uploaded_files = <<>>
    /\ manual_texts = <<>>
    /\ fn_arg = NoReturn

\* a caller calls process_candidates
InitProcess ==
    /\ entry = "process_candidates"
    /\ pc = "pc_build"
    /\ uploaded_files \in FileInputs
    /\ \E n \in 0..MaxManual : manual_texts \in ManualInputs(n)
    /\ candidates = <<>>
    /\ fn_arg = NoReturn

Init == InitLocals /\ (InitDetect \/ InitProcess)

Next ==
    \/ DD_Validate
    \/ DD_Group
    \/ DD_EmailPass
    \/ DD_ContentPass
    \/ DD_NameEmailPass
    \/ DD_Filter
    \/ PC_Build
    \/ PC_AfterDetect
    \/ PC_Embed
    \/ PC_Score
    \/ PC_Sort
    \/ PC_Summarize
    \/ PC_Return

Spec == Init /\ [][Next]_vars

\* names and emails with and without the separator of the name+email key
SeparatorProfiles ==
    {Cand(TRUE, AllKeys, <<>>, n, e, t) :
        n \in {<<"a">>, <<"a","_","b">>},
        e \in {<<"c">>, <<"b","_","c">>},
        t \in {TextX, TextY}}

\* a caller calls detect_duplicates on candidates of these names and emails
InitSeparator ==
    /\ InitLocals
    /\ entry = "detect_duplicates"
    /\ pc = "dd_validate"
    /\ \E n \in 0..MaxCands :
          \E f \in [1..n -> SeparatorProfiles] : candidates = DetectInput(f)
    /\ uploaded_files = <<>>
    /\ manual_texts = <<>>
    /\ fn_arg = NoReturn

NextDetect ==
    \/ DD_Validate
    \/ DD_Group
    \/ DD_EmailPass
    \/ DD_ContentPass
    \/ DD_NameEmailPass
    \/ DD_Filter

SpecSeparator == InitSeparator /\ [][NextDetect]_vars

(***************************************************************************)
(* app.py: the handler of the "Recommend Candidates" button, lines 90-174. *)
(***************************************************************************)
\* what st.file_uploader(type=["pdf", "docx"]) hands over: no upload, two
\* resumes, or a file without extractable text
AppFileInputs ==
    {<<>>,
     <<File(TRUE, "pdf", ResubmittedResume), File(TRUE, "docx", SharedEmailResume)>>,
     <<File(TRUE, "pdf", <<>>)>>}

\* a click on the button in a fresh session
InitApp ==
    /\ InitLocals
    /\ entry = "recommend_candidates"
    /\ pc = "app_click"
    /\ uploaded_files \in AppFileInputs
    /\ \E n \in 0..MaxManual : manual_texts \in ManualInputs(n)
    /\ candidates = <<>>
    /\ fn_arg = NoReturn

\* app.py lines 90-94: st.error on a blank job description or without any
\* resume
APP_Validate ==
    /\ pc = "app_click"
    /\ IF Strip(JobDescription) = <<>>
       THEN pc' = "app_done"
       ELSE IF uploaded_files = <<>>
               /\ \A i \in 1..Len(manual_texts) : Strip(manual_texts[i]) = <<>>
       THEN pc' = "app_done"
       ELSE pc' = "app_build"
    /\ UNCHANGED <<entry, ddVars, pcVars, fnVars, appVars>>

\* app.py lines 100-120: every uploaded file is read, there is no "if file"
RECURSIVE AppFileCandidates(_, _)
AppFileCandidates(files, i) ==
    IF i > Len(files) THEN <<>>
    ELSE LET file == files[i]
             rest == AppFileCandidates(files, i + 1)
         IN  IF file.ext \in {"pdf", "docx"} /\ file.content # <<>>
             THEN <<NewCandidate(<<"File", i>>, file.content)>> \o rest
             ELSE rest

\* app.py lines 97-136: the candidates, or st.error and st.stop()
APP_Build ==
    /\ pc = "app_build"
    /\ candidates' = AppFileCandidates(uploaded_files, 1)
                        \o ManualCandidates(manual_texts, 1)
    /\ pc' = IF candidates' = <<>> THEN "app_done" ELSE "app_embed"
    /\ UNCHANGED <<entry, valid_candidates, email_groups, content_hash_groups,
                   name_email_groups, duplicates, duplicate_info, dd_ret,
                   pcVars, fnVars, appVars>>

\* app.py lines 139-141: the job description, then the texts of all the
\* candidates; an exception of generate_embeddings ends the script run
APP_Embed ==
    /\ pc = "app_embed"
    /\ \E job_raises \in BOOLEAN : \E resumes_raise \in BOOLEAN :
          LET job == generate_embeddings(<<JobDescription>>, job_raises)
              resumes == generate_embeddings(ResumeTexts(candidates), resumes_raise)
          IN  IF job.raised
              THEN /\ encode_calls' = encode_calls \o job.calls
                   /\ pc' = "app_raised"
              ELSE /\ encode_calls' = encode_calls \o job.calls \o resumes.calls
                   /\ pc' = IF resumes.raised THEN "app_raised" ELSE "app_score"
    /\ UNCHANGED <<entry, ddVars, uploaded_files, manual_texts, unique_candidates,
                   p_duplicate_info, similarity_scores, df, similarity_calls,
                   summary_calls, ret, sort_raised, fnVars, appVars>>

\* app.py lines 148-155, on the rounded score
status_badge(score) ==
    IF score >= ExcellentThreshold
    THEN [status |-> "Excellent Match", badge |-> "status-excellent"]
    ELSE IF score >= GoodThreshold
    THEN [status |-> "Good Match", badge |-> "status-good"]
    ELSE IF score >= FairThreshold
    THEN [status |-> "Fair Match", badge |-> "status-fair"]
    ELSE [status |-> "Poor Match", badge |-> "status-poor"]

\* app.py lines 158-169
AppResultRow(i, c, score, summary) ==
    LET tier == status_badge(score)
    IN  [Rank |-> i, CandidateID |-> c.id, Name |-> c.name, Email |-> c.email,
         SimilarityScore |-> score, Status |-> tier.status,
         StatusClass |-> tier.badge, AISummary |-> summary]

\* app.py lines 142-169: cosine_similarity raises, or yields one score per
\* candidate; the loop rounds the score, picks the tier and calls
\* generate_summary for every candidate
APP_Score ==
    /\ pc = "app_score"
    /\ similarity_calls' = similarity_calls + 1
    /\ \/ /\ pc' = "app_raised"
          /\ UNCHANGED <<similarity_scores, df, summary_calls>>
       \/ \E p \in ScorePatterns : \E backend \in SummarizerBackends :
             LET n == Len(candidates)
                 sims == [i \in 1..n |-> p[((i - 1) % PatternLen) + 1]]
                 score(i) == Round4(sims[i])
                 summary(i) == generate_summary(JobDescription, candidates[i].text,
                                                score(i), backend)
             IN  /\ similarity_scores' = sims
                 /\ summary_calls' =
                       [i \in 1..n |-> [job_description |-> JobDescription,
                                        resume_text |-> candidates[i].text,
                                        similarity_score |-> score(i),
                                        key_configured |-> KeyConfigured(backend),
                                        backend_called |-> BackendCalled(backend),
                                        backend_failed |-> BackendFailed(backend),
                                        result |-> summary(i)]]
                 /\ df' = [i \in 1..n |->
                             AppResultRow(i, candidates[i], score(i), summary(i))]
                 /\ pc' = "app_sort"
    /\ UNCHANGED <<entry, ddVars, uploaded_files, manual_texts, unique_candidates,
                   p_duplicate_info, encode_calls, ret, sort_raised, fnVars, appVars>>

\* app.py lines 171-173: sort, rank and store; no try around the sort
APP_Sort ==
    /\ pc = "app_sort"
    /\ \/ \E p \in ArgSorts(df) :
             /\ df' = SortedFrame(df, p)
             /\ session_results' = [stored |-> TRUE, df |-> df']
             /\ pc' = "app_done"
       \/ /\ pc' = "app_raised"
          /\ UNCHANGED <<df, session_results>>
    /\ UNCHANGED <<entry, ddVars, uploaded_files, manual_texts, unique_candidates,
                   p_duplicate_info, similarity_scores, encode_calls, similarity_calls,
                   summary_calls, ret, sort_raised, fnVars>>

NextApp ==
    \/ APP_Validate
    \/ APP_Build
    \/ APP_Embed
    \/ APP_Score
    \/ APP_Sort

SpecApp == InitApp /\ [][NextApp]_vars

(***************************************************************************)
(* Direct calls of the pure functions: a caller hands one argument to one  *)
(* function and gets its result.                                           *)
(***************************************************************************)
\* the pipeline's state, untouched by a direct call
InitIdle ==
    /\ InitLocals
    /\ candidates = <<>>
    /\ uploaded_files = <<>>
    /\ manual_texts = <<>>

FnCall(f) == entry = f /\ pc = "fn_call"

FnReturned(f) == entry = f /\ pc = "fn_returned"

\* scores in units of 0.00001: 0, 1 and those around the three thresholds
ClassifyScores ==
    {0, 100000}
    \cup UNION {(t - ScoreMargin)..(t + ScoreMargin) :
                   t \in {FairThreshold, GoodThreshold, ExcellentThreshold}}

InitClassify ==
    /\ InitIdle
    /\ entry = "classify_status"
    /\ pc = "fn_call"
    /\ fn_arg \in ClassifyScores

\* classify_status(score)
Call_classify_status ==
    /\ FnCall("classify_status")
    /\ fn_ret' = [status |-> "returned", value |-> classify_status(fn_arg)]
    /\ pc' = "fn_returned"
    /\ UNCHANGED <<entry, fn_arg, ddVars, pcVars, appVars>>

NextClassify == Call_classify_status

SpecClassify == InitClassify /\ [][NextClassify]_vars

InitFallback ==
    /\ InitIdle
    /\ entry = "fallback_summary"
    /\ pc = "fn_call"
    /\ fn_arg \in ClassifyScores

\* fallback_summary(similarity_score)
Call_fallback_summary ==
    /\ FnCall("fallback_summary")
    /\ fn_ret' = [status |-> "returned", value |-> fallback_summary(fn_arg)]
    /\ pc' = "fn_returned"
    /\ UNCHANGED <<entry, fn_arg, ddVars, pcVars, appVars>>

NextFallback == Call_fallback_summary

SpecFallback == InitFallback /\ [][NextFallback]_vars

\* a Python value handed to a function: its type, its truth value, its
\* characters when it is a str, and str(value)
PyStr(s) == [type |-> "str", truthy |-> s # <<>>, value |-> s, str |-> s]

PyOther(type, truthy, str) == [type |-> type, truthy |-> truthy, value |-> <<>>, str |-> str]

PyNone == PyOther("NoneType", FALSE, <<"N","o","n","e">>)

\* 0, 123, [], [1] and b'ab'
NonStrings ==
    {PyOther("int", FALSE, <<"0">>),
     PyOther("int", TRUE, <<"1","2","3">>),
     PyOther("list", FALSE, <<"[","]">>),
     PyOther("list", TRUE, <<"[","1","]">>),
     PyOther("bytes", TRUE, <<"b","'","a","b","'">>)}

\* a letter in both cases, two kinds of whitespace, a character outside
\* the whitelist of clean_text
HashAlphabet == {"a", "A", " ", "\t", "#"}

HashTexts == UNION {[1..n -> HashAlphabet] : n \in 0..MaxTextLen}

\* generate_content_hash without its except branch
generate_content_hash_of_NoFallback(v) ==
    IF ~v.truthy THEN [status |-> "returned", value |-> Sha256(<<>>)]
    ELSE IF v.type = "str"
    THEN [status |-> "returned", value |-> generate_content_hash(v.value)]
    ELSE [status |-> "raised"]

\* recommender.generate_content_hash on any value: lines 52-53 for a falsy
\* one, lines 54-55 for a str, and for any other value the TypeError of
\* re.sub in clean_text and the except branch of lines 56-59
generate_content_hash_of(v) ==
    IF ~v.truthy THEN [status |-> "returned", value |-> Sha256(<<>>)]
    ELSE IF v.type = "str"
    THEN [status |-> "returned", value |-> generate_content_hash(v.value)]
    ELSE [status |-> "returned", value |-> Sha256(v.str)]

InitHash ==
    /\ InitIdle
    /\ entry = "generate_content_hash"
    /\ pc = "fn_call"
    /\ fn_arg \in {PyStr(t) : t \in HashTexts} \cup {PyNone} \cup NonStrings

\* generate_content_hash(text)
Call_generate_content_hash ==
    /\ FnCall("generate_content_hash")
    /\ fn_ret' = generate_content_hash_of(fn_arg)
    /\ pc' = "fn_returned"
    /\ UNCHANGED <<entry, fn_arg, ddVars, pcVars, appVars>>

NextHash == Call_generate_content_hash

SpecHash == InitHash /\ [][NextHash]_vars

\* embedding vectors of dimension 2 and length 1, with coordinates in
\* fifths: (1, 0), (3/5, 4/5), ... in every quadrant
UnitVectors ==
    {v \in [1..2 -> -5..5] : v[1] * v[1] + v[2] * v[2] = 25}

Dot(a, b) == a[1] * b[1] + a[2] * b[2]

\* the square root of a perfect square
IntSqrt(n) == CHOOSE r \in 0..n : r * r = n

\* sklearn's cosine_similarity of two vectors, a.b / (|a| |b|), in units
\* of 0.00001
Cosine(a, b) == (Dot(a, b) * 100000) \div IntSqrt(Dot(a, a) * Dot(b, b))

\* similarity.calculate_similarity: cosine_similarity([job], candidates)[0]
calculate_similarity(job_embedding, candidate_embeddings) ==
    [i \in 1..Len(candidate_embeddings) |-> Cosine(job_embedding, candidate_embeddings[i])]

InitSimilarity ==
    /\ InitIdle
    /\ entry = "calculate_similarity"
    /\ pc = "fn_call"
    /\ \E job \in UnitVectors : \E n \in 1..MaxVectors :
          \E vectors \in [1..n -> UnitVectors] :
              fn_arg = [job_embedding |-> job, candidate_embeddings |-> vectors]

\* calculate_similarity(job_embedding, candidate_embeddings)
Call_calculate_similarity ==
    /\ FnCall("calculate_similarity")
    /\ fn_ret' = [status |-> "returned",
                  value |-> calculate_similarity(fn_arg.job_embedding,
                                                 fn_arg.candidate_embeddings)]
    /\ pc' = "fn_returned"
    /\ UNCHANGED <<entry, fn_arg, ddVars, pcVars, appVars>>

NextSimilarity == Call_calculate_similarity

SpecSimilarity == InitSimilarity /\ [][NextSimilarity]_vars

(***************************************************************************)
(* Vocabulary of the properties.  Groups are recomputed here from the      *)
(* candidates, not read from the dictionaries of the run.                  *)
(***************************************************************************)
\* detect_duplicates has just returned to its caller
DDReturned == pc = "dd_returned"

Criteria == <<"email", "content", "name_email">>

TypeOf(crit) ==
    CASE crit = "email" -> "email_duplicate"
      [] crit = "content" -> "content_duplicate"
      [] crit = "name_email" -> "name_email_duplicate"

KeyOf(crit, c) ==
    CASE crit = "email" -> NormalizedEmail(c)
      [] crit = "content" -> generate_content_hash(c.text)
      [] crit = "name_email" -> NameEmailKey(c)

HasSentinelEmail(c) == NormalizedEmail(c) \in SentinelEmails

\* valid candidates i and j are in one group of the keying; sentinel
\* emails form no email group
SameGroup(crit, i, j) ==
    /\ crit = "email" => ~HasSentinelEmail(valid_candidates[i])
    /\ KeyOf(crit, valid_candidates[i]) = KeyOf(crit, valid_candidates[j])

\* valid candidate i has an earlier member in its group of the keying
NonFirst(crit, i) == \E j \in 1..(i - 1) : SameGroup(crit, j, i)

ValidPositions == 1..Len(valid_candidates)

\* every valid candidate carries an id (ids are distinct by construction)
IdsGiven == \A i \in ValidPositions : "id" \in valid_candidates[i].keys

\* the positions, among the valid candidates, of those returned as unique
KeptPositions ==
    {i \in ValidPositions :
        \E k \in 1..Len(dd_ret.unique) : dd_ret.unique[k] = valid_candidates[i]}

ReportsOf(id) ==
    {k \in 1..Len(dd_ret.duplicates) : dd_ret.duplicates[k].candidate_id = id}

KeptWithId(id) == {k \in 1..Len(dd_ret.unique) : dd_ret.unique[k].id = id}

\* the position of the valid candidate with this id
PositionOfId(id) == CHOOSE i \in ValidPositions : valid_candidates[i].id = id

(***************************************************************************)
(* C1: when detect_duplicates returns on candidates with pairwise distinct *)
(* ids, every valid candidate is either in unique or the candidate_id of   *)
(* exactly one duplicate record, never both and never reported twice, and  *)
(* len(unique) + len(duplicates) <= number of valid inputs.                *)
(***************************************************************************)
C1_EveryValidCandidateInExactlyOneOutput ==
    (DDReturned /\ IdsGiven) =>
        /\ \A i \in ValidPositions :
              Cardinality(KeptWithId(valid_candidates[i].id))
                + Cardinality(ReportsOf(valid_candidates[i].id)) = 1
        /\ Len(dd_ret.unique) + Len(dd_ret.duplicates) <= Len(valid_candidates)

\* a returned call in which one candidate is a later member of a group
\* under all three keyings, next to two kept candidates
C1_Witness ==
    /\ DDReturned /\ IdsGiven
    /\ Len(dd_ret.unique) >= 2
    /\ \E i \in ValidPositions :
          NonFirst("email", i) /\ NonFirst("content", i) /\ NonFirst("name_email", i)

(***************************************************************************)
(* C2, as claimed: in every group of more than one member, under each of   *)
(* the three keyings, the first member in input order is present in unique *)
(* and every later member is in the duplicate report.                      *)
(***************************************************************************)
Reported(i) ==
    /\ "id" \in valid_candidates[i].keys
    /\ ReportsOf(valid_candidates[i].id) # {}

\* valid candidate i is a later member of a group under some keying
NonFirstSomewhere(i) == \E c \in 1..3 : NonFirst(Criteria[c], i)

C2_FirstOfEveryGroupIsKept ==
    DDReturned =>
        LET kept == KeptPositions IN
        \A c \in 1..3 : \A i \in ValidPositions : \A j \in ValidPositions :
            (i < j /\ SameGroup(Criteria[c], i, j) /\ ~NonFirst(Criteria[c], i)) =>
                (i \in kept /\ Reported(j))

(***************************************************************************)
(* C2, amended: in every group of more than one member, under each of the  *)
(* three keyings, every later member is in the duplicate report, and the   *)
(* first member in input order is present in unique unless it is itself a  *)
(* later member of a group under one of the three keyings.                 *)
(***************************************************************************)
C2_FirstKeptUnlessLaterMemberElsewhere ==
    DDReturned =>
        LET kept == KeptPositions IN
        \A c \in 1..3 : \A i \in ValidPositions : \A j \in ValidPositions :
            (i < j /\ SameGroup(Criteria[c], i, j) /\ ~NonFirst(Criteria[c], i)) =>
                /\ Reported(j)
                /\ i \in kept <=> ~NonFirstSomewhere(i)

\* one group whose first member is kept and one whose first member was
\* removed as a later member of another group
C2_Witness ==
    /\ DDReturned
    /\ \E c \in 1..3 : \E i \in KeptPositions : \E j \in ValidPositions :
          i < j /\ SameGroup(Criteria[c], i, j)
    /\ \E c \in 1..3 : \E i \in ValidPositions \ KeptPositions : \E j \in ValidPositions :
          i < j /\ SameGroup(Criteria[c], i, j) /\ ~NonFirst(Criteria[c], i)

(***************************************************************************)
(* C3, as claimed: the reason of every duplicate record cites a candidate  *)
(* that is present in unique, that precedes the removed candidate in input *)
(* order and that shares with it the key of the record's criterion.        *)
(***************************************************************************)
\* the record's cited candidate precedes the removed one and shares the
\* key of the record's criterion with it
CitesEarlierOfSameGroup(d) ==
    LET removed == PositionOfId(d.candidate_id)
        cited == PositionOfId(d.reason.cites)
    IN  /\ cited < removed
        /\ \E c \in 1..3 :
              TypeOf(Criteria[c]) = d.type /\ SameGroup(Criteria[c], cited, removed)

C3_ReasonCitesAKeptCandidate ==
    DDReturned =>
        LET kept == KeptPositions IN
        \A k \in 1..Len(dd_ret.duplicates) :
            /\ CitesEarlierOfSameGroup(dd_ret.duplicates[k])
            /\ PositionOfId(dd_ret.duplicates[k].reason.cites) \in kept

(***************************************************************************)
(* C3, amended: the reason of every duplicate record cites a candidate     *)
(* that precedes the removed candidate in input order and shares with it   *)
(* the key of the record's criterion; the cited candidate is present in    *)
(* unique unless it is itself a later member of a group under one of the   *)
(* three keyings.                                                          *)
(***************************************************************************)
C3_ReasonCitesEarlierOfSameGroup ==
    DDReturned =>
        LET kept == KeptPositions IN
        \A k \in 1..Len(dd_ret.duplicates) :
            LET cited == PositionOfId(dd_ret.duplicates[k].reason.cites)
            IN  /\ CitesEarlierOfSameGroup(dd_ret.duplicates[k])
                /\ cited \in kept <=> ~NonFirstSomewhere(cited)

\* a report with a record that cites a kept candidate and a record that
\* cites a removed one
C3_Witness ==
    /\ DDReturned
    /\ \E k \in 1..Len(dd_ret.duplicates) :
          PositionOfId(dd_ret.duplicates[k].reason.cites) \in KeptPositions
    /\ \E k \in 1..Len(dd_ret.duplicates) :
          PositionOfId(dd_ret.duplicates[k].reason.cites) \notin KeptPositions

(***************************************************************************)
(* C4, as claimed: after detect_duplicates no two candidates of unique     *)
(* share a non-empty email, a content hash or a (name, email) pair.        *)
(***************************************************************************)
C4_NoSharedNonEmptyEmail ==
    DDReturned =>
        LET kept == KeptPositions IN
        \A i \in kept : \A j \in kept :
            i # j =>
                LET a == valid_candidates[i]
                    b == valid_candidates[j]
                IN  /\ ~(NormalizedEmail(a) = NormalizedEmail(b) /\ NormalizedEmail(a) # <<>>)
                    /\ generate_content_hash(a.text) # generate_content_hash(b.text)
                    /\ <<a.name, a.email>> # <<b.name, b.email>>

(***************************************************************************)
(* C4, amended: after detect_duplicates no two candidates of unique share  *)
(* an email that, lower-cased and trimmed, is neither "" nor               *)
(* "no email found"; no two have the same content hash of their text; no   *)
(* two have the same (name, email) pair.                                   *)
(***************************************************************************)
C4_NoSharedNonSentinelEmail ==
    DDReturned =>
        LET kept == KeptPositions IN
        \A i \in kept : \A j \in kept :
            i # j =>
                LET a == valid_candidates[i]
                    b == valid_candidates[j]
                IN  /\ ~(NormalizedEmail(a) = NormalizedEmail(b) /\ ~HasSentinelEmail(a))
                    /\ generate_content_hash(a.text) # generate_content_hash(b.text)
                    /\ <<a.name, a.email>> # <<b.name, b.email>>

\* two kept candidates that both have the email "No email found", while a
\* third candidate was removed
C4_Witness ==
    /\ DDReturned
    /\ dd_ret.duplicates # <<>>
    /\ \E i \in KeptPositions : \E j \in KeptPositions :
          /\ i # j
          /\ valid_candidates[i].email = NoEmailFound
          /\ valid_candidates[j].email = NoEmailFound

(***************************************************************************)
(* C5: every candidate returned in unique is the lowest-index member, in   *)
(* input order, of every group it belongs to under each of the three       *)
(* keyings (the email keying groups non-sentinel emails only).             *)
(***************************************************************************)
C5_KeptIsLowestOfItsGroups ==
    DDReturned =>
        \A i \in KeptPositions : \A c \in 1..3 : ~NonFirst(Criteria[c], i)

\* a kept candidate that heads a group of more than one member under each
\* keying, next to another kept candidate
C5_Witness ==
    /\ DDReturned
    /\ Len(dd_ret.unique) >= 2
    /\ \E i \in KeptPositions :
          \A c \in 1..3 : \E j \in ValidPositions : i < j /\ SameGroup(Criteria[c], i, j)

(***************************************************************************)
(* C6: the type of every duplicate record is the first criterion, in the   *)
(* order email, content hash, name+email, under which the removed          *)
(* candidate is a later member of a group, and the candidate is reported   *)
(* once only.  When all N valid candidates have the same content, unique   *)
(* has length 1 and the N-1 records are content_duplicate, except those    *)
(* caught as email_duplicate.                                              *)
(***************************************************************************)
FirstCriterion(i) ==
    IF NonFirst("email", i) THEN "email"
    ELSE IF NonFirst("content", i) THEN "content"
    ELSE "name_email"

AllSameContent ==
    \A i \in ValidPositions : \A j \in ValidPositions :
        generate_content_hash(valid_candidates[i].text)
          = generate_content_hash(valid_candidates[j].text)

C6_TaggedWithFirstCriterion ==
    (DDReturned /\ IdsGiven) =>
        /\ \A k \in 1..Len(dd_ret.duplicates) :
              LET d == dd_ret.duplicates[k]
                  removed == PositionOfId(d.candidate_id)
              IN  /\ NonFirst(FirstCriterion(removed), removed)
                  /\ d.type = TypeOf(FirstCriterion(removed))
                  /\ Cardinality(ReportsOf(d.candidate_id)) = 1
        /\ (AllSameContent /\ valid_candidates # <<>>) =>
              /\ Len(dd_ret.unique) = 1
              /\ Len(dd_ret.duplicates) = Len(valid_candidates) - 1
              /\ \A k \in 1..Len(dd_ret.duplicates) :
                    dd_ret.duplicates[k].type \in {"content_duplicate", "email_duplicate"}

\* three candidates of the same content, one removed by its email and one
\* by its content
C6_Witness ==
    /\ DDReturned /\ IdsGiven /\ AllSameContent
    /\ Len(valid_candidates) >= 3
    /\ \E k \in 1..Len(dd_ret.duplicates) : dd_ret.duplicates[k].type = "email_duplicate"
    /\ \E k \in 1..Len(dd_ret.duplicates) : dd_ret.duplicates[k].type = "content_duplicate"

(***************************************************************************)
(* C7: an input entry that lacks an id, a name, an email or a text is      *)
(* dropped silently: the call returns normally and the entry is neither in *)
(* unique nor in the duplicate report.  (That the entry has no influence   *)
(* on the other candidates is a further conjunct of the claim, which this  *)
(* formula leaves out; the claim is the stronger statement.)               *)
(***************************************************************************)
LacksAField(c) == ~(AllKeys \subseteq c.keys)

C7_EntriesLackingAFieldAreDropped ==
    (entry = "detect_duplicates" /\ pc \in {"dd_returned", "dd_raised"}) =>
        /\ dd_ret.status = "returned"
        /\ \A i \in 1..Len(candidates) :
              LacksAField(candidates[i]) =>
                  /\ \A k \in 1..Len(dd_ret.unique) : dd_ret.unique[k] # candidates[i]
                  /\ \A k \in 1..Len(dd_ret.duplicates) :
                        "id" \in candidates[i].keys =>
                            dd_ret.duplicates[k].candidate_id # candidates[i].id

(***************************************************************************)
(* C8, as claimed: candidates whose lower-cased, trimmed email is a        *)
(* sentinel ("" or "no email found", in any letter case) never count as    *)
(* duplicates of each other: when two such candidates have different       *)
(* resume text, no duplicate record removes one of them citing the other,  *)
(* and a list of just the two is returned whole, with an empty report.     *)
(***************************************************************************)
\* read off the email itself, not off the key of the email grouping
IsSentinel(email) == Strip(Lower(email)) \in {<<>>, Lower(NoEmailFound)}

SentinelPairOfDifferentText(a, b) ==
    /\ IsSentinel(a.email)
    /\ IsSentinel(b.email)
    /\ generate_content_hash(a.text) # generate_content_hash(b.text)

\* neither of the two is reported as a duplicate of the other
NotDuplicatesOfEachOther(i, j) ==
    /\ \A k \in 1..Len(dd_ret.duplicates) :
          LET d == dd_ret.duplicates[k]
          IN  ~(d.candidate_id = valid_candidates[j].id
                /\ d.reason.cites = valid_candidates[i].id)
    /\ Len(valid_candidates) = 2 =>
          (dd_ret.unique = valid_candidates /\ dd_ret.duplicates = <<>>)

C8_SentinelEmailsNeverDuplicates ==
    (DDReturned /\ IdsGiven) =>
        \A i \in ValidPositions : \A j \in ValidPositions :
            (i < j /\ SentinelPairOfDifferentText(valid_candidates[i], valid_candidates[j]))
                => NotDuplicatesOfEachOther(i, j)

(***************************************************************************)
(* C8, amended: candidates whose lower-cased, trimmed email is a sentinel  *)
(* ("" or "no email found", in any letter case) never count as duplicates  *)
(* of each other by their email: when two such candidates have different   *)
(* resume text and different lower-cased, trimmed names, no duplicate      *)
(* record removes one of them citing the other, and a list of just the two *)
(* is returned whole, with an empty report.                                *)
(***************************************************************************)
C8_SentinelEmailsNeverEmailDuplicates ==
    (DDReturned /\ IdsGiven) =>
        \A i \in ValidPositions : \A j \in ValidPositions :
            (/\ i < j
             /\ SentinelPairOfDifferentText(valid_candidates[i], valid_candidates[j])
             /\ Strip(Lower(valid_candidates[i].name))
                  # Strip(Lower(valid_candidates[j].name)))
                => NotDuplicatesOfEachOther(i, j)

\* a list of two candidates with the email "No email found", different
\* names and different texts, both kept
C8_Witness ==
    /\ DDReturned /\ IdsGiven
    /\ Len(valid_candidates) = 2
    /\ valid_candidates[1].email = NoEmailFound
    /\ valid_candidates[2].email = NoEmailFound
    /\ valid_candidates[1].name # valid_candidates[2].name
    /\ generate_content_hash(valid_candidates[1].text)
         # generate_content_hash(valid_candidates[2].text)
    /\ Len(dd_ret.unique) = 2

(***************************************************************************)
(* C9: the unique list returned by detect_duplicates is a subsequence of   *)
(* the input list: the survivors keep their relative order.                *)
(***************************************************************************)
RECURSIVE IsSubsequence(_, _)
IsSubsequence(a, b) ==
    IF a = <<>> THEN TRUE
    ELSE IF b = <<>> THEN FALSE
    ELSE IF Head(a) = Head(b) THEN IsSubsequence(Tail(a), Tail(b))
    ELSE IsSubsequence(a, Tail(b))

C9_UniqueIsSubsequenceOfInput ==
    DDReturned => IsSubsequence(dd_ret.unique, candidates)

\* a removed candidate between two kept ones
C9_Witness ==
    /\ DDReturned
    /\ \E i \in KeptPositions : \E j \in KeptPositions :
          \E r \in ValidPositions \ KeptPositions : i < r /\ r < j

(***************************************************************************)
(* C10: the table process_candidates returns has exactly one row per       *)
(* unique candidate (same ids, each once), no row for a candidate that has *)
(* a duplicate record, and the duplicate report it returns is the one      *)
(* detect_duplicates returned.                                             *)
(***************************************************************************)
RowsOf(id) == {r \in 1..Len(ret.df) : ret.df[r].CandidateID = id}

C10_OneRowPerUniqueCandidate ==
    (ret.status = "returned" /\ dd_ret.status = "returned") =>
        /\ Len(ret.df) = Len(dd_ret.unique)
        /\ \A k \in 1..Len(dd_ret.unique) : Cardinality(RowsOf(dd_ret.unique[k].id)) = 1
        /\ \A r \in 1..Len(ret.df) : ReportsOf(ret.df[r].CandidateID) = {}
        /\ ret.duplicates = dd_ret.duplicates

\* a returned table of several rows whose order is not the order of
\* unique, with a non-empty duplicate report
C10_Witness ==
    /\ ret.status = "returned"
    /\ Len(ret.df) >= 3
    /\ ret.duplicates # <<>>
    /\ \E r \in 1..Len(ret.df) : ret.df[r].CandidateID # dd_ret.unique[r].id

(***************************************************************************)
(* Vocabulary of the properties of process_candidates.                     *)
(***************************************************************************)
\* process_candidates has returned a table and a duplicate report
PCReturned == ret.status = "returned"

\* the position in the built candidate list of the candidate with this id
InputPosition(id) == CHOOSE k \in 1..Len(candidates) : candidates[k].id = id

RankIsRowNumber == \A r \in 1..Len(ret.df) : ret.df[r].Rank = r

ScoreNeverIncreases ==
    \A r \in 1..Len(ret.df) : \A q \in 1..Len(ret.df) :
        r < q => ret.df[r].SimilarityScore >= ret.df[q].SimilarityScore

(***************************************************************************)
(* C11, as claimed: in the table process_candidates returns, Rank is 1..N  *)
(* in row order, without gaps or repeats, and the similarity score never   *)
(* increases as Rank increases.                                            *)
(***************************************************************************)
C11_RankDenseAndScoreDescending ==
    PCReturned => (RankIsRowNumber /\ ScoreNeverIncreases)

(***************************************************************************)
(* C11, amended: in the table process_candidates returns, Rank is 1..N in  *)
(* row order, without gaps or repeats; and unless sorting raised (the rows *)
(* then stay in the order of the unique candidates), the similarity score  *)
(* never increases as Rank increases.                                      *)
(***************************************************************************)
C11_RankDenseAndScoreDescendingIfSorted ==
    PCReturned =>
        /\ RankIsRowNumber
        /\ ~sort_raised => ScoreNeverIncreases

\* a sorted table of several rows, one of them moved up past a row of
\* lower score, and two rows of equal score
C11_Witness ==
    /\ PCReturned
    /\ ~sort_raised
    /\ Len(ret.df) >= 3
    /\ \E r \in 1..Len(ret.df) : \E q \in 1..Len(ret.df) :
          /\ r < q
          /\ ret.df[r].SimilarityScore > ret.df[q].SimilarityScore
          /\ InputPosition(ret.df[r].CandidateID) > InputPosition(ret.df[q].CandidateID)
    /\ \E r \in 1..Len(ret.df) : \E q \in 1..Len(ret.df) :
          r < q /\ ret.df[r].SimilarityScore = ret.df[q].SimilarityScore

(***************************************************************************)
(* C12: any two rows of the returned table with equal similarity score     *)
(* are in the relative order their candidates had in the input list.       *)
(***************************************************************************)
C12_TiesKeepInputOrder ==
    PCReturned =>
        \A r \in 1..Len(ret.df) : \A q \in 1..Len(ret.df) :
            (r < q /\ ret.df[r].SimilarityScore = ret.df[q].SimilarityScore) =>
                InputPosition(ret.df[r].CandidateID) < InputPosition(ret.df[q].CandidateID)

(***************************************************************************)
(* C13: when process_candidates returns N rows, generate_summary has been  *)
(* called exactly min(5, N) times, the i-th call with the text and the     *)
(* score of the row of rank i, and every row of rank above 5 has an empty  *)
(* AI Summary.                                                             *)
(***************************************************************************)
\* the cleaned text of the unique candidate a row stands for
TextOfRow(row) ==
    LET k == CHOOSE j \in 1..Len(unique_candidates) :
                 unique_candidates[j].id = row.CandidateID
    IN  unique_candidates[k].text

MinOf(a, b) == IF a < b THEN a ELSE b

C13_SummariesForTopFiveOnly ==
    PCReturned =>
        /\ Len(summary_calls) = MinOf(5, Len(ret.df))
        /\ \A i \in 1..Len(summary_calls) :
              /\ summary_calls[i].job_description = JobDescription
              /\ summary_calls[i].resume_text = TextOfRow(ret.df[i])
              /\ summary_calls[i].similarity_score = ret.df[i].SimilarityScore
        /\ \A r \in 1..Len(ret.df) : r > 5 => ret.df[r].AISummary = <<>>

\* a table of more than five rows, five of them with a summary
C13_Witness ==
    /\ PCReturned
    /\ Len(ret.df) > 5
    /\ Len(summary_calls) = 5
    /\ \A r \in 1..5 : ret.df[r].AISummary # <<>>
    /\ ret.df[6].AISummary = <<>>

(***************************************************************************)
(* C14: classify_status gives every score exactly one tier, by exact       *)
(* comparison: Excellent iff score >= 0.8, Good iff 0.6 <= score < 0.8,    *)
(* Fair iff 0.4 <= score < 0.6, Poor iff score < 0.4; so 0.8 is Excellent, *)
(* 0.79999 is Good, 0.4 is Fair and 0.39999 is Poor.                       *)
(***************************************************************************)
C14_TiersByExactThresholds ==
    FnReturned("classify_status") =>
        LET score == fn_arg
            tier == fn_ret.value.status
        IN  /\ tier \in {"Excellent Match", "Good Match", "Fair Match", "Poor Match"}
            /\ tier = "Excellent Match" <=> score >= 80000
            /\ tier = "Good Match" <=> (60000 <= score /\ score < 80000)
            /\ tier = "Fair Match" <=> (40000 <= score /\ score < 60000)
            /\ tier = "Poor Match" <=> score < 40000
            /\ score = 79999 => tier = "Good Match"
            /\ score = 39999 => tier = "Poor Match"

\* the score 0.8 itself, classified
C14_Witness ==
    /\ FnReturned("classify_status")
    /\ fn_arg = ExcellentThreshold
    /\ fn_ret.value.status = "Excellent Match"

(***************************************************************************)
(* C15: when the embedding provider raises in either embedding call, the   *)
(* provider is not called again, process_candidates ends with that         *)
(* failure and returns no table, and neither the similarity function nor   *)
(* the summarizer is called.                                               *)
(***************************************************************************)
\* the calls of the provider that raised
RaisedEncodeCalls == {k \in 1..Len(encode_calls) : encode_calls[k].raised}

C15_EmbeddingFailureEndsTheCall ==
    RaisedEncodeCalls # {} =>
        /\ RaisedEncodeCalls = {Len(encode_calls)}
        /\ pc = "pc_raised"
        /\ ret = [status |-> "raised"]
        /\ similarity_calls = 0
        /\ summary_calls = <<>>
        /\ ~ENABLED Next

\* the provider embedded the job description and raised on the resumes
C15_Witness ==
    /\ Len(encode_calls) = 2
    /\ ~encode_calls[1].raised
    /\ encode_calls[2].raised
    /\ Len(encode_calls[2].texts) >= 2
    /\ pc = "pc_raised"

(***************************************************************************)
(* C16: generate_summary never raises: without an API key the backend is   *)
(* not called and the result is fallback_summary(score); when the backend  *)
(* call or the handling of its response fails the result is                *)
(* fallback_summary(score); a summarization failure never aborts           *)
(* process_candidates.                                                     *)
(***************************************************************************)
IsFallbackFor(result, score) ==
    /\ result.kind = "fallback"
    /\ result = fallback_summary(score)

C16_SummaryFailuresAreAbsorbed ==
    summary_calls # <<>> =>
        /\ \A i \in 1..Len(summary_calls) :
              LET call == summary_calls[i]
              IN  /\ call.result.kind # "raised"
                  /\ ~call.key_configured =>
                        (~call.backend_called
                         /\ IsFallbackFor(call.result, call.similarity_score))
                  /\ call.backend_failed =>
                        IsFallbackFor(call.result, call.similarity_score)
        /\ pc \in {"pc_return", "pc_returned"}
        /\ pc = "pc_returned" =>
              (PCReturned /\ Len(ret.df) = Len(unique_candidates))

\* a table returned although every call of the backend failed
C16_Witness ==
    /\ PCReturned
    /\ Len(summary_calls) >= 2
    /\ \A i \in 1..Len(summary_calls) : summary_calls[i].backend_failed
    /\ \A i \in 1..Len(summary_calls) : ret.df[i].AISummary.kind = "fallback"

(***************************************************************************)
(* C17, as claimed: when no candidate is built from the input, or when all *)
(* built candidates are duplicates of one another, process_candidates      *)
(* returns an empty table together with the duplicate report, without      *)
(* raising.                                                                *)
(***************************************************************************)
\* process_candidates has returned or raised
PCEnded == entry = "process_candidates" /\ pc \in {"pc_returned", "pc_raised"}

\* built candidates a and b share the key of one of the three groupings
DuplicatesOfEachOther(a, b) ==
    \/ NormalizedEmail(a) \notin SentinelEmails /\ NormalizedEmail(a) = NormalizedEmail(b)
    \/ generate_content_hash(a.text) = generate_content_hash(b.text)
    \/ NameEmailKey(a) = NameEmailKey(b)

AllDuplicatesOfOneAnother ==
    /\ Len(candidates) >= 2
    /\ \A i \in 1..Len(candidates) : \A j \in 1..Len(candidates) :
          DuplicatesOfEachOther(candidates[i], candidates[j])

C17_EmptyOrAllDuplicateInputGivesEmptyTable ==
    (PCEnded /\ (candidates = <<>> \/ AllDuplicatesOfOneAnother)) =>
        /\ PCReturned
        /\ ret.df = EmptyFrame
        /\ ret.duplicates = (IF candidates = <<>> THEN <<>> ELSE dd_ret.duplicates)

(***************************************************************************)
(* C17, amended: when no candidate is built from the input,                *)
(* process_candidates returns an empty table and an empty duplicate report *)
(* without raising; when all built candidates are duplicates of one        *)
(* another, a call that returns gives a table of exactly one row, the      *)
(* first candidate, and a duplicate report with one record for each of the *)
(* others.                                                                 *)
(***************************************************************************)
C17_EmptyInputGivesEmptyTableAllDuplicatesOneRow ==
    PCEnded =>
        /\ candidates = <<>> =>
              (PCReturned /\ ret.df = EmptyFrame /\ ret.duplicates = <<>>)
        /\ (AllDuplicatesOfOneAnother /\ PCReturned) =>
              /\ Len(ret.df) = 1
              /\ ret.df[1].CandidateID = candidates[1].id
              /\ ret.duplicates = dd_ret.duplicates
              /\ \A i \in 2..Len(candidates) :
                    Cardinality({k \in 1..Len(ret.duplicates) :
                                    ret.duplicates[k].candidate_id = candidates[i].id}) = 1

\* three submissions of one resume: one row and two duplicate records
C17_Witness ==
    /\ PCReturned
    /\ AllDuplicatesOfOneAnother
    /\ Len(candidates) = 3
    /\ Len(ret.df) = 1
    /\ Len(ret.duplicates) = 2

(***************************************************************************)
(* C18: texts that differ only in whitespace, in letter case or in         *)
(* characters outside the whitelist get the same content hash: the hashed  *)
(* text has its whitespace runs collapsed to single spaces, no character   *)
(* outside the whitelist, no upper-case letter and no leading or trailing  *)
(* whitespace.                                                             *)
(***************************************************************************)
\* the text without the characters outside the whitelist
WithoutNoise(text) ==
    PickAt(text, {i \in 1..Len(text) :
                     IsWordChar(text[i]) \/ IsSpace(text[i]) \/ text[i] \in Punctuation}, 1)

IsNormalized(hashed) ==
    /\ \A i \in 1..Len(hashed) :
          /\ IsSpace(hashed[i]) => hashed[i] = " "
          /\ IsWordChar(hashed[i]) \/ hashed[i] = " " \/ hashed[i] \in Punctuation
          /\ hashed[i] \notin UpperLetters
    /\ \A i \in 1..(Len(hashed) - 1) : ~(hashed[i] = " " /\ hashed[i + 1] = " ")
    /\ hashed # <<>> => (hashed[1] # " " /\ hashed[Len(hashed)] # " ")

C18_HashIgnoresWhitespaceCaseAndNoise ==
    (FnReturned("generate_content_hash") /\ fn_arg.type = "str") =>
        LET text == fn_arg.value
        IN  /\ fn_ret.value = generate_content_hash(WithoutNoise(text))
            /\ fn_ret.value = generate_content_hash(Lower(text))
            /\ fn_ret.value = generate_content_hash(CollapseWhitespace(text))
            /\ fn_ret.value = generate_content_hash(Strip(text))
            /\ IsNormalized(fn_ret.value[2])

(***************************************************************************)
(* C19: generate_content_hash returns a digest for every input without     *)
(* raising; None and the empty string give the digest of the empty string, *)
(* and a value whose normalization fails gives the digest of its raw       *)
(* str() form.                                                             *)
(***************************************************************************)
IsDigest(h) == Len(h) = 2 /\ h[1] = "sha256"

C19_HashIsTotal ==
    FnReturned("generate_content_hash") =>
        /\ fn_ret.status = "returned"
        /\ IsDigest(fn_ret.value)
        /\ (fn_arg.type = "NoneType" \/ (fn_arg.type = "str" /\ fn_arg.value = <<>>)) =>
              fn_ret.value = Sha256(<<>>)
        /\ (fn_arg.type # "str" /\ fn_arg.truthy) => fn_ret.value = Sha256(fn_arg.str)

\* the int 123, hashed as the string "123"
C19_Witness ==
    /\ FnReturned("generate_content_hash")
    /\ fn_arg.type = "int"
    /\ fn_arg.truthy
    /\ fn_ret.value = Sha256(<<"1","2","3">>)

(***************************************************************************)
(* C20: for unit-length job and candidate vectors of one dimension,        *)
(* calculate_similarity returns one score per candidate vector, in the     *)
(* order of the candidate vectors, and every score lies in [0, 1].         *)
(***************************************************************************)
C20_ScoresLieInUnitInterval ==
    FnReturned("calculate_similarity") =>
        /\ fn_ret.status = "returned"
        /\ Len(fn_ret.value) = Len(fn_arg.candidate_embeddings)
        /\ \A i \in 1..Len(fn_ret.value) :
              /\ fn_ret.value[i] * 25
                    = Dot(fn_arg.job_embedding, fn_arg.candidate_embeddings[i]) * 100000
              /\ 0 <= fn_ret.value[i]
              /\ fn_ret.value[i] <= 100000

(***************************************************************************)
(* C21, as claimed: the embedding provider is called only after duplicate  *)
(* detection has finished: not at all when no candidate is built, and      *)
(* otherwise exactly twice, first with the job description alone and then  *)
(* with the texts of the unique candidates in unique order, so that        *)
(* exactly len(unique) similarity scores are computed.                     *)
(***************************************************************************)
\* the texts of the candidates detect_duplicates returned as unique
UniqueTexts == [i \in 1..Len(dd_ret.unique) |-> dd_ret.unique[i].text]

CalledOnlyAfterDetection ==
    encode_calls # <<>> => (dd_ret.status = "returned" /\ dd_ret.unique # <<>>)

JobThenUniqueTexts ==
    /\ Len(encode_calls) = 2
    /\ encode_calls[1].texts = <<JobDescription>>
    /\ encode_calls[2].texts = UniqueTexts

C21_ProviderCalledTwiceAfterDetection ==
    entry = "process_candidates" =>
        /\ CalledOnlyAfterDetection
        /\ PCEnded =>
              IF candidates = <<>>
              THEN encode_calls = <<>>
              ELSE /\ JobThenUniqueTexts
                   /\ Len(similarity_scores) = Len(dd_ret.unique)

(***************************************************************************)
(* C21, amended: the embedding provider is called only after duplicate     *)
(* detection has finished: not at all when no candidate is built, and      *)
(* otherwise first with the job description alone and then, unless that    *)
(* call raised, once with the texts of the unique candidates in unique     *)
(* order, never more than twice; when neither the provider nor the         *)
(* similarity function raises, exactly len(unique) similarity scores are   *)
(* computed, and otherwise none.                                           *)
(***************************************************************************)
C21_ProviderCalledAfterDetectionAtMostTwice ==
    entry = "process_candidates" =>
        /\ CalledOnlyAfterDetection
        /\ PCEnded =>
              IF candidates = <<>>
              THEN encode_calls = <<>>
              ELSE /\ \/ JobThenUniqueTexts
                      \/ /\ Len(encode_calls) = 1
                         /\ encode_calls[1].texts = <<JobDescription>>
                         /\ encode_calls[1].raised
                   /\ Len(similarity_scores)
                        = (IF PCReturned THEN Len(dd_ret.unique) ELSE 0)

\* a returned run in which a duplicate was removed before the embedding
C21_Witness ==
    /\ PCReturned
    /\ Len(encode_calls) = 2
    /\ Len(dd_ret.unique) >= 2
    /\ Len(dd_ret.unique) < Len(candidates)
    /\ Len(encode_calls[2].texts) = Len(dd_ret.unique)
    /\ Len(similarity_scores) = Len(dd_ret.unique)

(***************************************************************************)
(* C22: when sorting the scored rows raises, process_candidates does not   *)
(* fail: it goes on to return all N rows in the order of the unique        *)
(* candidates with Rank 1..N, and generates summaries for the first        *)
(* min(5, N) rows only.                                                    *)
(***************************************************************************)
C22_SortFailureFallsBackToInputOrder ==
    sort_raised =>
        /\ ret.status # "raised"
        /\ pc # "pc_raised"
        /\ ~PCReturned => ENABLED Next
        /\ PCReturned =>
              /\ Len(ret.df) = Len(unique_candidates)
              /\ \A r \in 1..Len(ret.df) :
                    /\ ret.df[r].CandidateID = unique_candidates[r].id
                    /\ ret.df[r].SimilarityScore = Round4(similarity_scores[r])
                    /\ ret.df[r].Rank = r
                    /\ (ret.df[r].AISummary # <<>>) <=> (r <= 5)
              /\ Len(summary_calls) = MinOf(5, Len(ret.df))
              /\ \A i \in 1..Len(summary_calls) :
                    summary_calls[i].resume_text = unique_candidates[i].text

\* a returned table of more than five rows, left unsorted: the first row
\* has a lower score than the second
C22_Witness ==
    /\ PCReturned
    /\ sort_raised
    /\ Len(ret.df) > 5
    /\ ret.df[1].SimilarityScore < ret.df[2].SimilarityScore
    /\ Len(summary_calls) = 5
    /\ ret.df[6].AISummary = <<>>

(***************************************************************************)
(* C23: for every score, 0.8, 0.6 and 0.4 included, the template chosen by *)
(* fallback_summary is the one of the tier classify_status assigns to that *)
(* score: "excellent alignment" iff Excellent, "good alignment" iff Good,  *)
(* "moderate match" iff Fair, "limited overlap" iff Poor.                  *)
(***************************************************************************)
TemplateOfTier(status) ==
    CASE status = "Excellent Match" -> "excellent alignment"
      [] status = "Good Match" -> "good alignment"
      [] status = "Fair Match" -> "moderate match"
      [] status = "Poor Match" -> "limited overlap"

C23_FallbackTemplateFollowsClassifyStatus ==
    FnReturned("fallback_summary") =>
        fn_ret.value.template = TemplateOfTier(classify_status(fn_arg).status)

(***************************************************************************)
(* C24: in every row of the table process_candidates returns, Status and   *)
(* Status Class are the tier the thresholds 0.8 / 0.6 / 0.4 give for the   *)
(* Similarity Score shown in that row (the score rounded to 4 decimals),   *)
(* and the summary of the row is generated from that same shown score.     *)
(***************************************************************************)
C24_StatusIsTheTierOfTheShownScore ==
    PCReturned =>
        /\ \A r \in 1..Len(ret.df) :
              LET tier == classify_status(ret.df[r].SimilarityScore)
              IN  /\ ret.df[r].Status = tier.status
                  /\ ret.df[r].StatusClass = tier.class
        /\ \A i \in 1..Len(summary_calls) :
              summary_calls[i].similarity_score = ret.df[i].SimilarityScore

(***************************************************************************)
(* C25: detect_duplicates produces a name_email_duplicate record only if   *)
(* the cited candidate has the same lower-cased trimmed name and the same  *)
(* lower-cased trimmed email as the removed one: two candidates have the   *)
(* same name+email key exactly when both components are equal, also for    *)
(* names and emails that contain "_".                                      *)
(***************************************************************************)
SameNameAndEmail(a, b) ==
    NormalizedName(a) = NormalizedName(b) /\ NormalizedEmail(a) = NormalizedEmail(b)

C25_NameEmailKeyEqualIffBothComponentsEqual ==
    DDReturned =>
        /\ \A k \in 1..Len(dd_ret.duplicates) :
              LET d == dd_ret.duplicates[k] IN
              d.type = "name_email_duplicate" =>
                  SameNameAndEmail(valid_candidates[PositionOfId(d.reason.cites)],
                                   valid_candidates[PositionOfId(d.candidate_id)])
        /\ \A i, j \in ValidPositions :
              (NameEmailKey(valid_candidates[i]) = NameEmailKey(valid_candidates[j]))
                  <=> SameNameAndEmail(valid_candidates[i], valid_candidates[j])

(***************************************************************************)
(* C26: the "Recommend Candidates" action of the application follows the   *)
(* data flow of process_candidates: the table it stores never has two rows *)
(* for candidates that share a non-sentinel email or identical resume      *)
(* text, embeddings are computed only for deduplicated candidates, and the *)
(* summarizer is called for at most the top 5 rows.                        *)
(***************************************************************************)
\* two candidates with the same non-sentinel email or the same resume text
EmailOrContentDuplicates(a, b) ==
    \/ NormalizedEmail(a) = NormalizedEmail(b) /\ ~HasSentinelEmail(a)
    \/ generate_content_hash(a.text) = generate_content_hash(b.text)

\* the positions of the candidates that duplicate no earlier candidate
FirstOfTheirKind ==
    {j \in 1..Len(candidates) :
        \A i \in 1..(j - 1) : ~EmailOrContentDuplicates(candidates[i], candidates[j])}

CandidateOfRow(row) ==
    candidates[CHOOSE i \in 1..Len(candidates) : candidates[i].id = row.CandidateID]

C26_AppFollowsTheDataFlowOfProcessCandidates ==
    entry = "recommend_candidates" =>
        /\ session_results.stored =>
              \A r1, r2 \in 1..Len(session_results.df) :
                  r1 # r2 =>
                      ~EmailOrContentDuplicates(CandidateOfRow(session_results.df[r1]),
                                                CandidateOfRow(session_results.df[r2]))
        /\ Len(encode_calls) = 2 =>
              Len(encode_calls[2].texts) <= Cardinality(FirstOfTheirKind)
        /\ Len(summary_calls) <= TopCandidates

====
